---- MODULE Spec2Model ----
(***************************************************************************)
(* USB topology reconstruction and HMD / dongle location, as implemented   *)
(* in usb_util_windows.py.                                                 *)
(*                                                                         *)
(* One scan of one bus is modelled as a state machine whose steps are the  *)
(* function calls of find_hmd(): __create_device_tree, __sort_device_tree,  *)
(* __convert_tree, one UsbTreeItem.find_hmd() per root of the forest, and  *)
(* ViveHMD.get_attached_dongles() on every finding the generator yields.   *)
(*                                                                         *)
(* Python values are encoded as follows.                                   *)
(*   Optional value : None is <<>>, a present value x is <<x>>.            *)
(*   dict           : a sequence of entries in insertion order, each entry *)
(*                    carrying its key (keys are unique in a sequence).    *)
(*   object identity: a UsbTreeItem is identified by `ref`, the chain of   *)
(*                    dict keys leading to it; `parent` holds the ref of   *)
(*                    the parent object, or None.                          *)
(*   exception      : a raising call moves pc to "error" and records the   *)
(*                    exception type and the raising function in err.      *)
(***************************************************************************)
EXTENDS Integers, Sequences, FiniteSets, TLC

VARIABLES devices, pc, device_tree, sorted_tree, converted, next_root, findings, dongles, err

vars == <<devices, pc, device_tree, sorted_tree, converted, next_root, findings, dongles, err>>

(***************************************************************************)
(* Bounds of the model.                                                    *)
(***************************************************************************)
\* Longest device list handed to the Topology Builder in SpecBuild.
MaxDevices == 3
\* Largest number of devices on the bus in SpecScan.
ScanDevices == 4
\* Port numbers used by the generated device records.
Ports == {1, 2}

(***************************************************************************)
(* Program constants.                                                      *)
(***************************************************************************)
CLASS_HUB == 9
VALVE_VENDOR == 10462
DONGLE_PRODUCT_A == 8449
DONGLE_PRODUCT_B == 8450
HTC_VENDOR == 2996
VIVE_HMD_PRODUCT == 777
VIVE_ROOT_DEPTH == 3
PRODUCT_ROOT_DEPTH == 2

(***************************************************************************)
(* Optional values.                                                        *)
(***************************************************************************)
None == <<>>
Some(x) == <<x>>
Val(o) == o[1]

(***************************************************************************)
(* dict helpers: `key in d` and d[key] on a sequence of entries.           *)
(***************************************************************************)
HasKey(d, k) == \E i \in 1..Len(d) : d[i].key = k
KeyIndex(d, k) == CHOOSE i \in 1..Len(d) : d[i].key = k

(***************************************************************************)
(* __create_device_tree                                                    *)
(***************************************************************************)
RECURSIVE PlaceDevice_Replace(_, _, _, _)
\* Mutant: the final slot is always assigned a fresh {"device", "children"}
\* dict, also when the slot already exists.
PlaceDevice_Replace(current_node, prefix, last_port, device) ==
    IF prefix = <<>>
    THEN IF ~HasKey(current_node, last_port)
         THEN Append(current_node, [key |-> last_port, device |-> Some(device), children |-> <<>>])
         ELSE [current_node EXCEPT ![KeyIndex(current_node, last_port)] =
                   [key |-> last_port, device |-> Some(device), children |-> <<>>]]
    ELSE LET port == Head(prefix)
             with_slot == IF ~HasKey(current_node, port)
                          THEN Append(current_node, [key |-> port, device |-> None, children |-> <<>>])
                          ELSE current_node
         IN [with_slot EXCEPT ![KeyIndex(with_slot, port)].children =
                 PlaceDevice_Replace(@, Tail(prefix), last_port, device)]

RECURSIVE PlaceDevice(_, _, _, _)
\* Lines 126-135: walk ports[:-1] from current_node, creating device-less
\* slots where a port is missing, then create or fill the slot of last_port.
PlaceDevice(current_node, prefix, last_port, device) ==
    IF prefix = <<>>
    THEN IF ~HasKey(current_node, last_port)
         THEN Append(current_node, [key |-> last_port, device |-> Some(device), children |-> <<>>])
         ELSE [current_node EXCEPT ![KeyIndex(current_node, last_port)].device = Some(device)]
    ELSE LET port == Head(prefix)
             with_slot == IF ~HasKey(current_node, port)
                          THEN Append(current_node, [key |-> port, device |-> None, children |-> <<>>])
                          ELSE current_node
         IN [with_slot EXCEPT ![KeyIndex(with_slot, port)].children =
                 PlaceDevice(@, Tail(prefix), last_port, device)]

\* Lines 121-135: the body of the loop for one device.
InsertDevice(root, device) ==
    IF device.ports = None
    THEN PlaceDevice(root, <<>>, device.port_number, device)
    ELSE LET ports == Val(device.ports)
         IN PlaceDevice(root, SubSeq(ports, 1, Len(ports) - 1), ports[Len(ports)], device)

RECURSIVE CreateLoop(_, _, _)
CreateLoop(root, devs, i) ==
    IF i > Len(devs) THEN root ELSE CreateLoop(InsertDevice(root, devs[i]), devs, i + 1)

create_device_tree(devs) == CreateLoop(<<>>, devs, 1)

(***************************************************************************)
(* __sort_device_tree                                                      *)
(***************************************************************************)
Keys(d) == [i \in 1..Len(d) |-> d[i].key]

\* Mutant: the keys are left in insertion order.
SortedKeys_Unsorted(keys) == keys

RECURSIVE SortedFrom(_, _)
SortedFrom(keys, left) ==
    IF left = {} THEN <<>>
    ELSE LET i == CHOOSE a \in left : \A b \in left : keys[a] < keys[b] \/ (keys[a] = keys[b] /\ a <= b)
         IN <<keys[i]>> \o SortedFrom(keys, left \ {i})

\* sorted(to_sort.keys(), key=int): ascending, stable.
SortedKeys(keys) == SortedFrom(keys, 1..Len(keys))

RECURSIVE sort_device_tree(_)
sort_device_tree(to_sort) ==
    LET sorted_keys == SortedKeys(Keys(to_sort))
    IN [i \in 1..Len(sorted_keys) |->
           [to_sort[KeyIndex(to_sort, sorted_keys[i])] EXCEPT !.children = sort_device_tree(@)]]

(***************************************************************************)
(* UsbTreeItem                                                             *)
(***************************************************************************)
RECURSIVE InitRaises(_)
\* UsbTreeItem.__init__ raises AttributeError: the children are built first
\* (lines 9-11), then device.address is read (line 13), which fails on None.
InitRaises(data) ==
    \/ \E i \in 1..Len(data.children) : InitRaises(data.children[i])
    \/ data.device = None

RECURSIVE UsbTreeItem(_, _, _)
\* UsbTreeItem.__init__ when it does not raise.  ref is the identity of the
\* object built; the level argument of the code is Len(ref) - 1.
UsbTreeItem(data, parent, ref) ==
    LET device == Val(data.device)
    IN [ref |-> ref,
        children |-> [i \in 1..Len(data.children) |->
                         [num |-> data.children[i].key,
                          item |-> UsbTreeItem(data.children[i], Some(ref),
                                               Append(ref, data.children[i].key))]],
        parent |-> parent,
        port |-> device.port_number,
        product |-> IF device.product = None THEN "" ELSE Val(device.product),
        ports |-> device.ports,
        device |-> device]

is_hub(self) == self.device.bDeviceClass = CLASS_HUB

is_vive_dongle(self) ==
    self.device.idVendor = VALVE_VENDOR /\ self.device.idProduct \in {DONGLE_PRODUCT_A, DONGLE_PRODUCT_B}

is_dongle(self) == is_vive_dongle(self)

(***************************************************************************)
(* __convert_tree                                                          *)
(***************************************************************************)
ConvertRaises(to_convert) == \E i \in 1..Len(to_convert) : InitRaises(to_convert[i])

convert_tree(to_convert) ==
    [i \in 1..Len(to_convert) |-> UsbTreeItem(to_convert[i], None, <<to_convert[i].key>>)]

(***************************************************************************)
(* The objects of a forest.                                                *)
(***************************************************************************)
RECURSIVE ItemsUnder(_)
ItemsUnder(item) ==
    {item} \cup UNION {ItemsUnder(item.children[i].item) : i \in 1..Len(item.children)}

AllItems(forest) == UNION {ItemsUnder(forest[i]) : i \in 1..Len(forest)}

\* Dereference of an object reference.
ItemOf(forest, ref) == CHOOSE it \in AllItems(forest) : it.ref = ref

(***************************************************************************)
(* UsbTreeItem.children_flat_list                                          *)
(***************************************************************************)
RECURSIVE FlatFrom_NoGate(_, _)
\* Mutant: every child is expanded, hub or not.
FlatFrom_NoGate(children, i) ==
    IF i > Len(children) THEN <<>>
    ELSE LET child == children[i].item
         IN <<child>> \o FlatFrom_NoGate(child.children, 1) \o FlatFrom_NoGate(children, i + 1)

RECURSIVE FlatFrom(_, _)
\* Lines 59-62 from the i-th child on: yield the child, then, if the child is
\* a hub, everything its own children_flat_list yields.
FlatFrom(children, i) ==
    IF i > Len(children) THEN <<>>
    ELSE LET child == children[i].item
         IN <<child>> \o (IF is_hub(child) THEN FlatFrom(child.children, 1) ELSE <<>>)
                \o FlatFrom(children, i + 1)

\* Mutant: the item the list is asked of is yielded too.
children_flat_list_WithSelf(self) == <<self>> \o FlatFrom(self.children, 1)

children_flat_list(self) == FlatFrom(self.children, 1)

(***************************************************************************)
(* UsbTreeItem.get_hmd_root_depth and UsbTreeItem.find_hmd                 *)
(***************************************************************************)
get_hmd_root_depth(self) ==
    IF self.device.idVendor = HTC_VENDOR /\ self.device.idProduct = VIVE_HMD_PRODUCT
    THEN Some(VIVE_ROOT_DEPTH)
    ELSE IF self.product \in {"Beyond", "Index HMD"}
         THEN Some(PRODUCT_ROOT_DEPTH)
         ELSE None

\* What a call of find_hmd produces: None, a ViveHMD(device, idDevice), or an
\* exception.  device is an optional ref, idDevice a ref.
NoHmd == [status |-> "none", device |-> None, idDevice |-> <<>>]
Raised == [status |-> "raise", device |-> None, idDevice |-> <<>>]
ViveHMD(device, idDevice) == [status |-> "hmd", device |-> device, idDevice |-> idDevice]

RECURSIVE Ascend(_, _, _)
\* Lines 95-96: `device = device.parent`, hops times; reading .parent of None
\* raises AttributeError.
Ascend(forest, device, hops) ==
    IF hops = 0 THEN [raised |-> FALSE, device |-> device]
    ELSE IF device = None THEN [raised |-> TRUE, device |-> None]
    ELSE Ascend(forest, ItemOf(forest, Val(device)).parent, hops - 1)

\* Lines 92-97: the node itself.
EvaluateSelf(forest, self) ==
    LET required_depth == get_hmd_root_depth(self)
    IN IF required_depth = None THEN NoHmd
       ELSE LET up == Ascend(forest, Some(self.ref), Val(required_depth))
            IN IF up.raised THEN Raised ELSE ViveHMD(up.device, self.ref)

RECURSIVE item_find_hmd_SelfFirst(_, _)
RECURSIVE SearchChildren_SelfFirst(_, _, _)
SearchChildren_SelfFirst(forest, children, i) ==
    IF i > Len(children) THEN NoHmd
    ELSE LET device == item_find_hmd_SelfFirst(forest, children[i].item)
         IN IF device.status # "none" THEN device
            ELSE SearchChildren_SelfFirst(forest, children, i + 1)

\* Mutant: the node is evaluated before its children are searched.
item_find_hmd_SelfFirst(forest, self) ==
    LET own == EvaluateSelf(forest, self)
    IN IF own.status # "none" THEN own ELSE SearchChildren_SelfFirst(forest, self.children, 1)

RECURSIVE item_find_hmd(_, _)
RECURSIVE SearchChildren(_, _, _)
\* Lines 87-91: the first child, in dict order, whose find_hmd is not None;
\* an exception raised by a child ends the loop and propagates.
SearchChildren(forest, children, i) ==
    IF i > Len(children) THEN NoHmd
    ELSE LET device == item_find_hmd(forest, children[i].item)
         IN IF device.status # "none" THEN device
            ELSE SearchChildren(forest, children, i + 1)

\* UsbTreeItem.find_hmd
item_find_hmd(forest, self) ==
    LET found == SearchChildren(forest, self.children, 1)
    IN IF found.status # "none" THEN found ELSE EvaluateSelf(forest, self)

(***************************************************************************)
(* ViveHMD.get_attached_dongles                                            *)
(***************************************************************************)
\* self.device.children_flat_list raises AttributeError when device is None.
DonglesRaises(hmd) == hmd.device = None

get_attached_dongles(forest, hmd) ==
    LET flat == children_flat_list(ItemOf(forest, Val(hmd.device)))
        kept == SelectSeq(flat, is_dongle)
    IN [i \in 1..Len(kept) |-> kept[i].ref]

(***************************************************************************)
(* Device records of the generated inputs.                                 *)
(***************************************************************************)
HubDesc == [idVendor |-> 1060, idProduct |-> 10052, bDeviceClass |-> CLASS_HUB, product |-> None]
ViveDesc == [idVendor |-> HTC_VENDOR, idProduct |-> VIVE_HMD_PRODUCT, bDeviceClass |-> 0, product |-> None]
IndexDesc == [idVendor |-> VALVE_VENDOR, idProduct |-> 8960, bDeviceClass |-> 0, product |-> Some("Index HMD")]
BeyondDesc == [idVendor |-> 13613, idProduct |-> 257, bDeviceClass |-> 0, product |-> Some("Beyond")]
DongleDesc == [idVendor |-> VALVE_VENDOR, idProduct |-> DONGLE_PRODUCT_A, bDeviceClass |-> 0, product |-> Some("Watchman Dongle")]

Record(ports, port_number, desc) ==
    [ports |-> ports, port_number |-> port_number,
     idVendor |-> desc.idVendor, idProduct |-> desc.idProduct,
     bDeviceClass |-> desc.bDeviceClass, product |-> desc.product]

\* A record whose port_numbers is the tuple path; port_number is its last element.
RecordAt(path, desc) == Record(Some(path), path[Len(path)], desc)

\* The slot a record is placed in.
EffPath(device) == IF device.ports = None THEN <<device.port_number>> ELSE Val(device.ports)

BuildPaths ==
    {<<a>> : a \in Ports} \cup {<<a, b>> : a \in Ports, b \in Ports}
        \cup {<<a, b, c>> : a \in Ports, b \in Ports, c \in Ports}

BuildRecords ==
    {RecordAt(p, HubDesc) : p \in BuildPaths} \cup {Record(None, q, HubDesc) : q \in Ports}

(***************************************************************************)
(* Initial states.                                                         *)
(***************************************************************************)
InitRest ==
    /\ pc = "create"
    /\ device_tree = <<>>
    /\ sorted_tree = <<>>
    /\ converted = <<>>
    /\ next_root = 1
    /\ findings = <<>>
    /\ dongles = <<>>
    /\ err = ""

\* Any list of at most MaxDevices pairwise different records, in any order.
InitBuild ==
    /\ \E n \in 0..MaxDevices : \E f \in [1..n -> BuildRecords] :
          /\ \A i \in 1..n : \A j \in 1..n : f[i] = f[j] => i = j
          /\ devices = f
    /\ InitRest

(***************************************************************************)
(* Bus snapshots for the scan: every device hangs off a device that is on  *)
(* the bus too (or off the bus root), listed in descending path order.     *)
(***************************************************************************)
Kinds == {HubDesc, ViveDesc, IndexDesc, DongleDesc}

IsProperPrefix(p, q) == Len(p) < Len(q) /\ SubSeq(q, 1, Len(p)) = p

\* Positions a further device can be plugged into.
FreePorts(S) ==
    ({<<a>> : a \in Ports} \cup {Append(p, a) : p \in S, a \in Ports}) \ S

RECURSIVE Layouts(_)
\* The sets of n occupied positions.
Layouts(n) ==
    IF n = 0 THEN {{}}
    ELSE UNION {{S \cup {p} : p \in FreePorts(S)} : S \in Layouts(n - 1)}

RECURSIVE LexLess(_, _)
LexLess(p, q) ==
    IF p = <<>> THEN q # <<>>
    ELSE IF q = <<>> THEN FALSE
    ELSE IF Head(p) # Head(q) THEN Head(p) < Head(q)
    ELSE LexLess(Tail(p), Tail(q))

RECURSIVE Descending(_)
Descending(S) ==
    IF S = {} THEN <<>>
    ELSE LET top == CHOOSE p \in S : \A q \in S : q = p \/ LexLess(q, p)
         IN <<top>> \o Descending(S \ {top})

Snapshot(S, kind) ==
    LET order == Descending(S)
    IN [i \in 1..Len(order) |-> RecordAt(order[i], kind[order[i]])]

InitScan ==
    /\ \E n \in 0..ScanDevices : \E S \in Layouts(n) : \E kind \in [S -> Kinds] :
          devices = Snapshot(S, kind)
    /\ InitRest

\* Two root hubs with a device chain each, every position with any kind.
SiblingLayout == {<<1>>, <<1, 1>>, <<1, 2>>, <<1, 2, 1>>, <<2>>, <<2, 1>>, <<2, 1, 1>>}
SiblingKinds == {HubDesc, ViveDesc, BeyondDesc}

InitSiblings ==
    /\ \E kind \in [SiblingLayout -> SiblingKinds] : devices = Snapshot(SiblingLayout, kind)
    /\ InitRest

(***************************************************************************)
(* Actions.                                                                *)
(***************************************************************************)
CreateDeviceTree ==
    /\ pc = "create"
    /\ device_tree' = create_device_tree(devices)
    /\ pc' = "sort"
    /\ UNCHANGED <<devices, sorted_tree, converted, next_root, findings, dongles, err>>

\* output[key] is the very dict to_sort[key] (line 144), so assigning its
\* 'children' (line 146) also replaces the children of device_tree's entries
\* by their sorted copies; the top-level dict of device_tree keeps its order.
SortDeviceTree ==
    /\ pc = "sort"
    /\ sorted_tree' = sort_device_tree(device_tree)
    /\ device_tree' = [i \in 1..Len(device_tree) |->
                          [device_tree[i] EXCEPT !.children = sort_device_tree(@)]]
    /\ pc' = "convert"
    /\ UNCHANGED <<devices, converted, next_root, findings, dongles, err>>

ConvertTree ==
    /\ pc = "convert"
    /\ IF ConvertRaises(sorted_tree)
       THEN /\ pc' = "error"
            /\ err' = "AttributeError in UsbTreeItem.__init__"
            /\ UNCHANGED converted
       ELSE /\ pc' = "scan"
            /\ converted' = convert_tree(sorted_tree)
            /\ UNCHANGED err
    /\ UNCHANGED <<devices, device_tree, sorted_tree, next_root, findings, dongles>>

\* One iteration of `for dev in converted` in find_hmd(), lines 173-176, or
\* the end of the loop.
FindHmd ==
    /\ pc = "scan"
    /\ IF next_root > Len(converted)
       THEN /\ pc' = "done"
            /\ UNCHANGED <<next_root, findings, err>>
       ELSE LET hmd == item_find_hmd(converted, converted[next_root])
            IN IF hmd.status = "raise"
               THEN /\ pc' = "error"
                    /\ err' = "AttributeError in UsbTreeItem.find_hmd"
                    /\ UNCHANGED <<next_root, findings>>
               ELSE IF hmd.status = "hmd"
               THEN /\ pc' = "yield"
                    /\ findings' = Append(findings, hmd)
                    /\ UNCHANGED <<next_root, err>>
               ELSE /\ pc' = "scan"
                    /\ next_root' = next_root + 1
                    /\ UNCHANGED <<findings, err>>
    /\ UNCHANGED <<devices, device_tree, sorted_tree, converted, dongles>>

\* The consumer of the generator asks the finding just yielded for its
\* dongles, then resumes the generator.
GetAttachedDongles ==
    /\ pc = "yield"
    /\ LET hmd == findings[Len(findings)]
       IN IF DonglesRaises(hmd)
          THEN /\ pc' = "error"
               /\ err' = "AttributeError in ViveHMD.get_attached_dongles"
               /\ UNCHANGED <<dongles, next_root>>
          ELSE /\ pc' = "scan"
               /\ dongles' = Append(dongles, get_attached_dongles(converted, hmd))
               /\ next_root' = next_root + 1
               /\ UNCHANGED err
    /\ UNCHANGED <<devices, device_tree, sorted_tree, converted, findings>>

Next == CreateDeviceTree \/ SortDeviceTree \/ ConvertTree \/ FindHmd \/ GetAttachedDongles

SpecScan == InitScan /\ [][Next]_vars

SpecSiblings == InitSiblings /\ [][Next]_vars

NextBuild == CreateDeviceTree \/ SortDeviceTree \/ ConvertTree

SpecBuild == InitBuild /\ [][NextBuild]_vars

(***************************************************************************)
(* Vocabulary of the properties.                                           *)
(***************************************************************************)
\* The scan has a forest: __convert_tree returned.
ForestBuilt == pc \in {"scan", "yield", "done"} \/ (pc = "error" /\ converted # <<>>)

\* The Topology Builder has ended, with a forest or with an exception.
BuilderEnded == pc \notin {"create", "sort", "convert"}

\* The generator find_hmd() has ended, exhausted or by an exception of its own.
ScanEnded == pc = "done" \/ (pc = "error" /\ err = "AttributeError in UsbTreeItem.find_hmd")

RECURSIVE MappingAscending(_)
MappingAscending(d) ==
    /\ \A i \in 1..(Len(d) - 1) : d[i].key < d[i + 1].key
    /\ \A i \in 1..Len(d) : MappingAscending(d[i].children)

ForestAscending(forest) ==
    /\ \A i \in 1..(Len(forest) - 1) : forest[i].ref[1] < forest[i + 1].ref[1]
    /\ \A it \in AllItems(forest) :
          \A i \in 1..(Len(it.children) - 1) : it.children[i].num < it.children[i + 1].num

DistinctPaths(devs) ==
    \A i \in 1..Len(devs) : \A j \in 1..Len(devs) : EffPath(devs[i]) = EffPath(devs[j]) => i = j

InputOrders(n) == {f \in [1..n -> 1..n] : \A i \in 1..n : \A j \in 1..n : f[i] = f[j] => i = j}

RECURSIVE SlotAt(_, _)
\* The slot of the nested mapping at a port path, if there is one.
SlotAt(d, path) ==
    IF ~HasKey(d, Head(path)) THEN None
    ELSE LET e == d[KeyIndex(d, Head(path))]
         IN IF Len(path) = 1 THEN Some(e) ELSE SlotAt(e.children, Tail(path))

RECURSIVE Placeholders(_, _)
\* The port paths of the device-less slots of a nested mapping.
Placeholders(d, prefix) ==
    UNION {(IF d[i].device = None THEN {Append(prefix, d[i].key)} ELSE {})
               \cup Placeholders(d[i].children, Append(prefix, d[i].key)) : i \in 1..Len(d)}

\* devs[i] arrives when its slot exists already, without a device.
FillsPlaceholder(devs, i) ==
    LET slot == SlotAt(create_device_tree(SubSeq(devs, 1, i - 1)), EffPath(devs[i]))
    IN slot # None /\ Val(slot).device = None

\* The signature-to-depth table: the ascent a node's signature asks for, 0
\* when the node matches no row.
TableDepth(it) ==
    IF it.device.idVendor = 2996 /\ it.device.idProduct = 777 THEN 3
    ELSE IF it.product \in {"Beyond", "Index HMD"} THEN 2
    ELSE 0

SignatureMatch(it) == TableDepth(it) > 0

\* A signature-matching node with as many ancestors as its ascent needs.
GoodMatch(it) == SignatureMatch(it) /\ Len(it.ref) > TableDepth(it)

DongleSignature(it) == it.device.idVendor = 10462 /\ it.device.idProduct \in {8449, 8450}

HubClass(it) == it.device.bDeviceClass = 9

RECURSIVE PostOrder(_)
RECURSIVE PostOrderFrom(_, _)
PostOrderFrom(children, i) ==
    IF i > Len(children) THEN <<>>
    ELSE PostOrder(children[i].item) \o PostOrderFrom(children, i + 1)

\* The nodes of a subtree, every node after all of its descendants, children
\* in the order of the children mapping.
PostOrder(it) == PostOrderFrom(it.children, 1) \o <<it>>

\* The refs the Peripheral Finder visits for the j-th finding.
Visited(j) ==
    LET flat == children_flat_list(ItemOf(converted, Val(findings[j].device)))
    IN {flat[i].ref : i \in 1..Len(flat)}

Returned(j) == {dongles[j][i] : i \in 1..Len(dongles[j])}

(***************************************************************************)
(* Properties.                                                             *)
(***************************************************************************)

\* C1 -- Ordering: whatever the input order, the sorted nested mapping has
\* strictly ascending port keys at every level, and so have the root list and
\* the children mapping of every node of the forest built from it.
C1_Ordering ==
    /\ pc \notin {"create", "sort"} => MappingAscending(sorted_tree)
    /\ ForestBuilt => ForestAscending(converted)

\* A forest was built from a mapping that was out of order, and a node of it
\* has several children.
C1_Witness ==
    /\ pc = "scan"
    /\ ~MappingAscending(create_device_tree(devices))
    /\ \E it \in AllItems(converted) : Len(it.children) >= 2

\* C2 -- Round-trip identity, as claimed: once the Topology Builder has
\* processed the records there is a forest, and every supplied record is the
\* device of exactly one of its nodes, the node at the record's own port path.
C2_RoundTrip ==
    BuilderEnded =>
        /\ ForestBuilt
        /\ \A i \in 1..Len(devices) :
              /\ \E it \in AllItems(converted) : it.device = devices[i]
              /\ \A it \in AllItems(converted) :
                    it.device = devices[i] => it.ref = EffPath(devices[i])

\* What the code keeps of the round trip: with pairwise distinct port paths
\* and a record for every hub a path implies, every record is the device of
\* exactly one node, the node at its own port path.
RoundTripWhenConvertible ==
    (DistinctPaths(devices) /\ Placeholders(sorted_tree, <<>>) = {}) => C2_RoundTrip

\* C3 -- Placeholder tolerance, as claimed: when a port path implies a hub
\* whose record is not in the input, building and converting the forest raises
\* nothing, the forest has a node at the hub's position with the hub's
\* children attached, and the subtrees without such a hub are built as usual.
C3_PlaceholderTolerance ==
    (BuilderEnded /\ Placeholders(sorted_tree, <<>>) # {}) =>
        /\ pc # "error"
        /\ \A p \in Placeholders(sorted_tree, <<>>) :
              \E it \in AllItems(converted) :
                  it.ref = p /\ Len(it.children) = Len(Val(SlotAt(sorted_tree, p)).children)
        /\ \A i \in 1..Len(sorted_tree) :
              ~InitRaises(sorted_tree[i]) =>
                  \E it \in AllItems(converted) :
                      it = UsbTreeItem(sorted_tree[i], None, <<sorted_tree[i].key>>)

\* C4 -- HMD depth ascent, as claimed: every finding's idDevice matches a row
\* of the signature table, and its device is the node k parent links above
\* idDevice, k being 3 for the VID/PID row and 2 for the product row.
C4_DepthAscent ==
    \A j \in 1..Len(findings) :
        LET ref == findings[j].idDevice
            k == TableDepth(ItemOf(converted, ref))
        IN /\ k > 0
           /\ Len(ref) > k
           /\ findings[j].device = Some(SubSeq(ref, 1, Len(ref) - k))

\* The part of C4 the code keeps: the table row decides the ascent, and a
\* finding whose device is a node has the node k parent links above idDevice.
AscentWhenAncestorsExist ==
    \A j \in 1..Len(findings) :
        LET ref == findings[j].idDevice
            k == TableDepth(ItemOf(converted, ref))
        IN /\ k > 0
           /\ findings[j].device = IF Len(ref) > k THEN Some(SubSeq(ref, 1, Len(ref) - k)) ELSE None

\* C5 -- Ascent-overflow skip, as claimed: a signature-matching node with
\* fewer ancestors than its ascent is never the idDevice of a finding, and the
\* scan raises no error.
C5_AscentOverflowSkip ==
    /\ pc # "error"
    /\ \A j \in 1..Len(findings) : GoodMatch(ItemOf(converted, findings[j].idDevice))

\* C6 -- Hub-gated expansion, as claimed: every node the Peripheral Finder
\* visits or returns has a hub as its parent, the finding's ancestor included.
C6_HubGated ==
    \A j \in 1..Len(dongles) :
        \A v \in Visited(j) \cup Returned(j) :
            HubClass(ItemOf(converted, SubSeq(v, 1, Len(v) - 1)))

\* C6 as amended: the ancestor is expanded whether it is a hub or not, and
\* below it only hubs are expanded: every node visited or returned is a proper
\* descendant of the ancestor, and every node strictly between the ancestor
\* and it is a hub.
C6_HubGatedBelowAncestor ==
    \A j \in 1..Len(dongles) :
        LET anc == Val(findings[j].device)
        IN \A v \in Visited(j) \cup Returned(j) :
              /\ IsProperPrefix(anc, v)
              /\ \A n \in (Len(anc) + 1)..(Len(v) - 1) :
                    HubClass(ItemOf(converted, SubSeq(v, 1, n)))

\* The ancestor of a finding is no hub, and a dongle plugged into it is
\* returned.
C6_Witness ==
    \E j \in 1..Len(dongles) :
        /\ ~HubClass(ItemOf(converted, Val(findings[j].device)))
        /\ dongles[j] # <<>>

\* C7 -- Deepest match wins: the idDevice of a finding is the first
\* signature-matching node of its root's subtree in post-order (children in
\* ascending port order, every node after its descendants); so no proper
\* descendant of idDevice matches a signature.
C7_DeepestMatchWins ==
    \A j \in 1..Len(findings) :
        LET ref == findings[j].idDevice
            matches == SelectSeq(PostOrder(ItemOf(converted, <<ref[1]>>)), SignatureMatch)
        IN /\ matches # <<>>
           /\ ref = matches[1].ref
           /\ \A it \in AllItems(converted) : SignatureMatch(it) => ~IsProperPrefix(ref, it.ref)

\* A node and a descendant of it both match, and the finding names the
\* descendant.
C7_Witness ==
    \E j \in 1..Len(findings) :
        \E it \in AllItems(converted) :
            SignatureMatch(it) /\ IsProperPrefix(it.ref, findings[j].idDevice)

\* C8 -- Sibling independence, as claimed: when the scan has ended and two
\* root subtrees each hold a signature-matching node with enough ancestors,
\* each of the two has exactly one finding, the lower port's first.
C8_SiblingIndependence ==
    ScanEnded =>
        \A a \in 1..Len(converted) : \A b \in 1..Len(converted) :
            (a < b /\ (\E it \in ItemsUnder(converted[a]) : GoodMatch(it))
                   /\ (\E it \in ItemsUnder(converted[b]) : GoodMatch(it))) =>
                \E x \in 1..Len(findings) : \E y \in 1..Len(findings) :
                    /\ x < y
                    /\ findings[x].idDevice[1] = converted[a].ref[1]
                    /\ findings[y].idDevice[1] = converted[b].ref[1]
                    /\ \A z \in 1..Len(findings) :
                          findings[z].idDevice[1] \in {converted[a].ref[1], converted[b].ref[1]}
                              => z \in {x, y}

\* What the code keeps of sibling independence: a scan that ends without an
\* exception has one finding for each such root subtree.
SiblingIndependenceWhenNoRaise == pc = "done" => C8_SiblingIndependence

\* C9 -- Dongle collection scoping: every node get_attached_dongles returns is
\* a proper descendant of the finding's ancestor and has the dongle signature,
\* and no node is returned twice.
C9_DongleScoping ==
    \A j \in 1..Len(dongles) :
        /\ \A i \in 1..Len(dongles[j]) :
              /\ IsProperPrefix(Val(findings[j].device), dongles[j][i])
              /\ DongleSignature(ItemOf(converted, dongles[j][i]))
        /\ \A a \in 1..Len(dongles[j]) : \A b \in 1..Len(dongles[j]) :
              dongles[j][a] = dongles[j][b] => a = b

\* A dongle below the ancestor is returned while a node with the dongle
\* signature that is no proper descendant of the ancestor is on the bus.
C9_Witness ==
    \E j \in 1..Len(dongles) :
        /\ dongles[j] # <<>>
        /\ \E it \in AllItems(converted) :
              DongleSignature(it) /\ ~IsProperPrefix(Val(findings[j].device), it.ref)

\* C10 -- Input-order independence: for records with pairwise distinct port
\* paths every permutation of the input gives the same sorted nested mapping,
\* and a record that arrives when its slot is a device-less placeholder
\* becomes the slot's device while the slot keeps the children it had.
\* Stated of the state in which __sort_device_tree has just returned; the
\* input and the mappings are not assigned again after it.
C10_OrderIndependence ==
    (pc = "convert" /\ DistinctPaths(devices)) =>
        /\ \A f \in InputOrders(Len(devices)) :
              sort_device_tree(create_device_tree([i \in 1..Len(devices) |-> devices[f[i]]]))
                  = sorted_tree
        /\ \A i \in 1..Len(devices) :
              FillsPlaceholder(devices, i) =>
                  LET path == EffPath(devices[i])
                      before == Val(SlotAt(create_device_tree(SubSeq(devices, 1, i - 1)), path))
                      after == Val(SlotAt(create_device_tree(SubSeq(devices, 1, i)), path))
                      final == Val(SlotAt(device_tree, path))
                  IN /\ after.device = Some(devices[i])
                     /\ after.children = before.children
                     /\ final.device = Some(devices[i])

\* A hub record arrived after a record of one of its descendants.
C10_Witness ==
    /\ pc = "convert"
    /\ DistinctPaths(devices)
    /\ \E i \in 1..Len(devices) :
          /\ FillsPlaceholder(devices, i)
          /\ Val(SlotAt(device_tree, EffPath(devices[i]))).children # <<>>

====
